---------------------------- MODULE Spec2Model ----------------------------
(***************************************************************************)
(* Model of main.py: the propellant catalog, the Stage and Rocket value    *)
(* objects, and the optimizer (generate_combinations,                      *)
(* find_all_stage_combinations, find_best_rocket).                         *)
(*                                                                         *)
(* Numbers.  isp and density are small integers.  A mass is a Python int,  *)
(* of any size.  The floats the program computes (mass_ratio, np.log,      *)
(* delta_v, the sums and the running maximum) are IEEE 754 doubles, each   *)
(* operation rounded as the hardware rounds it, with the values -inf and   *)
(* nan that np.log gives for 0 and for a negative argument.  np.log is     *)
(* library code whose last bit depends on the build: for an argument whose *)
(* logarithm is no double it returns the double below or the double above  *)
(* the logarithm, the same one whenever it gets the same argument.  A      *)
(* volume is in 1/1000000 m^3.  A zero dry_mass + payload_mass is Python's *)
(* ZeroDivisionError.                                                      *)
(*                                                                         *)
(* Objects.  Stage objects live in `heap`; a Stage is referred to by its   *)
(* index in the heap, so that "a newly constructed Stage" and "the input   *)
(* Stage" are different things even when their fields agree.               *)
(***************************************************************************)
EXTENDS Integers, Sequences, FiniteSets, Bags

\* Largest number of input stages and largest catalog the model explores.
MaxStages == 2
MaxCatalog == 4

Abs(x) == IF x < 0 THEN 0 - x ELSE x
Max(x, y) == IF x >= y THEN x ELSE y
Min(x, y) == IF x <= y THEN x ELSE y

----------------------------------------------------------------------------
(* Propellant and the catalog (main.py 6-19) *)

Propellant(name, isp, density) ==
    [name |-> name, isp |-> isp, density |-> density]

\* The module-level dict, in insertion order (the order .values() iterates).
PROPELLANTS ==
    << Propellant("RP-1/LOX", 263, 806),
       Propellant("LH2/LOX", 421, 71),
       Propellant("N2O4/UDMH", 320, 793),
       Propellant("Solid", 280, 1500) >>

Range(s) == { s[k] : k \in 1..Len(s) }

\* The catalogs explored: the empty dict, and every run of at most
\* MaxCatalog consecutive entries of PROPELLANTS, the full dict included,
\* in the order .values() iterates them.
Catalogs ==
    { SubSeq(PROPELLANTS, r[1], r[2]) :
        r \in { q \in (1..Len(PROPELLANTS)) \X (0..Len(PROPELLANTS)) :
                  q[2] - q[1] < MaxCatalog } }

----------------------------------------------------------------------------
(* Natural numbers of any size, for Python's ints and for the arithmetic   *)
(* of floats: the sequence of the number's base-2^15 digits, lowest first, *)
(* without a leading zero digit; << >> is 0.                               *)

LimbBits == 15
Base == 2^LimbBits

\* The sum of the values of f, a function to natural numbers.
Sum(f) ==
    BagCardinality([ i \in DOMAIN f |-> f[i] + 1 ]) - Cardinality(DOMAIN f)

Limb(n, i) == IF i >= 1 /\ i <= Len(n) THEN n[i] ELSE 0

\* n without its leading zero digits.
Trim(n) ==
    SubSeq(n, 1, CHOOSE k \in 0..Len(n) :
                    /\ k = 0 \/ n[k] # 0
                    /\ \A j \in (k + 1)..Len(n) : n[j] = 0)

\* The natural number i, 0 <= i < 2^31.
NatFromInt(i) ==
    Trim(<< i % Base, (i \div Base) % Base, i \div (Base * Base) >>)

\* A carry of 1 reaches column k of the columns c, each below 2 * Base - 1:
\* some lower column overflows and every column between passes a carry on.
CarryInto(c, k) ==
    \E j \in 1..(k - 1) :
        /\ c[j] >= Base
        /\ \A m \in (j + 1)..(k - 1) : c[m] = Base - 1

\* The natural number whose columns are c, each below 2 * Base - 1.
Carried(c) ==
    Trim([ k \in 1..(Len(c) + 1) |->
             (Limb(c, k) + (IF CarryInto(c, k) THEN 1 ELSE 0)) % Base ])

\* The columns c, each below 2^31, as columns below 3 * Base.
Spread(c) ==
    [ k \in 1..(Len(c) + 2) |->
        (Limb(c, k) % Base) + ((Limb(c, k - 1) \div Base) % Base)
        + (Limb(c, k - 2) \div (Base * Base)) ]

\* The columns c, each below 3 * Base, as columns below Base + 3.
Settle(c) ==
    [ k \in 1..(Len(c) + 1) |->
        (Limb(c, k) % Base) + (Limb(c, k - 1) \div Base) ]

\* The natural number whose columns are c, each below 2^31.
Normalize(c) == Carried(Settle(Spread(c)))

NatAdd(a, b) ==
    IF b = << >> THEN a
    ELSE IF a = << >> THEN b
    ELSE Carried([ i \in 1..Max(Len(a), Len(b)) |-> Limb(a, i) + Limb(b, i) ])

\* A borrow of 1 reaches column k of the differences c.
BorrowInto(c, k) ==
    \E j \in 1..(k - 1) :
        /\ c[j] < 0
        /\ \A m \in (j + 1)..(k - 1) : c[m] = 0

\* The natural number whose columns are the differences c.
Borrowed(c) ==
    Trim([ k \in 1..Len(c) |->
             (c[k] - (IF BorrowInto(c, k) THEN 1 ELSE 0)) % Base ])

\* a - b for a >= b.
NatSub(a, b) ==
    IF b = << >> THEN a
    ELSE Borrowed([ i \in 1..Len(a) |-> a[i] - Limb(b, i) ])

NatLess(a, b) ==
    \/ Len(a) < Len(b)
    \/ /\ Len(a) = Len(b)
       /\ \E i \in 1..Len(a) :
             /\ a[i] < b[i]
             /\ \A j \in (i + 1)..Len(a) : a[j] = b[j]

\* a * m for 0 <= m <= 2^16.
NatMulSmall(a, m) ==
    IF m = 0 \/ a = << >> THEN << >>
    ELSE Normalize([ i \in 1..Len(a) |-> a[i] * m ])

\* 2 * a + bit.
Double(a, bit) ==
    Carried([ i \in 1..Max(Len(a), 1) |->
                2 * Limb(a, i) + (IF i = 1 THEN bit ELSE 0) ])

\* The pairs of digits of a and b whose product belongs to column k.
ColumnPairs(a, b, k) ==
    { i \in 1..Len(a) : k + 1 - i >= 1 /\ k + 1 - i <= Len(b) }

\* Column k of a * b: the low digits of its products, and the high digits.
ColumnLow(a, b, k) ==
    Sum([ i \in ColumnPairs(a, b, k) |-> (a[i] * b[k + 1 - i]) % Base ])

ColumnHigh(a, b, k) ==
    Sum([ i \in ColumnPairs(a, b, k) |-> (a[i] * b[k + 1 - i]) \div Base ])

NatMul(a, b) ==
    IF a = << >> \/ b = << >> THEN << >>
    ELSE Normalize([ k \in 1..(Len(a) + Len(b)) |->
                  ColumnLow(a, b, k) + ColumnHigh(a, b, k - 1) ])

\* a * Base^k.
ShiftLimbs(a, k) == IF a = << >> THEN << >> ELSE [ i \in 1..k |-> 0 ] \o a

\* a * 2^k.
ShiftLeft(a, k) ==
    IF k = 0 \/ a = << >> THEN a
    ELSE Trim([ i \in 1..(Len(a) + (k \div LimbBits) + 1) |->
             ((Limb(a, i - (k \div LimbBits)) * 2^(k % LimbBits)) % Base)
             + (Limb(a, i - (k \div LimbBits) - 1)
                  \div 2^(LimbBits - (k % LimbBits))) ])

\* a \div 2^k.
ShiftRight(a, k) ==
    IF k = 0 \/ a = << >> THEN a
    ELSE Trim([ i \in 1..Max(Len(a) - (k \div LimbBits), 0) |->
             (a[i + (k \div LimbBits)] \div 2^(k % LimbBits))
             + ((Limb(a, i + (k \div LimbBits) + 1) % 2^(k % LimbBits))
                  * 2^(LimbBits - (k % LimbBits))) ])

\* Number of binary digits of a.
BitLen(a) ==
    IF a = << >> THEN 0
    ELSE (Len(a) - 1) * LimbBits
         + (CHOOSE k \in 1..LimbBits :
               2^(k - 1) <= a[Len(a)] /\ a[Len(a)] < 2^k)

\* Binary digit i of a (digit 0 is the lowest).
Bit(a, i) == (Limb(a, (i \div LimbBits) + 1) \div 2^(i % LimbBits)) % 2

\* Some of the k lowest binary digits of a is 1.
LowBitsSet(a, k) ==
    \E i \in 1..Len(a) :
        \/ i <= k \div LimbBits /\ a[i] # 0
        \/ i = (k \div LimbBits) + 1 /\ a[i] % 2^(k % LimbBits) # 0

\* b^j % d for 1 <= d <= Base.
RECURSIVE PowMod(_, _, _)
PowMod(b, j, d) ==
    IF j = 0 THEN 1 % d
    ELSE IF j % 2 = 0 THEN (PowMod(b, j \div 2, d) * PowMod(b, j \div 2, d)) % d
    ELSE (PowMod(b, j - 1, d) * (b % d)) % d

\* (a \div Base^k) % d, pw[j] being Base^j % d.
HighRemainder(a, k, d, pw) ==
    Sum([ i \in (k + 1)..Len(a) |-> ((a[i] % d) * pw[i - k - 1]) % d ]) % d

\* a \div d for the digits of a, pw[j] being Base^j % d.
DivSmallDigits(a, d, pw) ==
    Trim([ k \in 1..Len(a) |->
             (HighRemainder(a, k, d, pw) * Base + a[k]) \div d ])

\* a \div d and a % d for 1 <= d <= Base.
NatDivSmall(a, d) ==
    IF d = 1 \/ a = << >> THEN a
    ELSE DivSmallDigits(a, d, [ j \in 0..Len(a) |-> PowMod(Base, j, d) ])

NatModSmall(a, d) ==
    HighRemainder(a, 0, d, [ j \in 0..Len(a) |-> PowMod(Base, j, d) ])

\* The digit r \div b, known to be one of the three up to estimate.
DigitNear(r, b, estimate) ==
    CHOOSE d \in Max(0, estimate - 2)..estimate :
        /\ ~ NatLess(r, NatMulSmall(b, d))
        /\ NatLess(r, NatMulSmall(b, d + 1))

\* r \div b for r < b * Base and a divisor b whose highest digit is at
\* least Base / 2: the two highest digits of r divided by the highest of b
\* overestimate it by 2 at most.
DivDigit(r, b) ==
    DigitNear(r, b,
              Min(Base - 1,
                  (Limb(r, Len(b) + 1) * Base + Limb(r, Len(b)))
                      \div b[Len(b)]))

\* One digit of a long division by b: the quotient q so far gets the digit
\* d, which b goes into the remainder r so far.
DivStepBy(q, r, b, d) ==
    IF d = 0 THEN [q |-> << 0 >> \o q, r |-> r]
    ELSE [q |-> << d >> \o q, r |-> NatSub(r, NatMulSmall(b, d))]

DivStepAt(q, r, b) == DivStepBy(q, r, b, DivDigit(r, b))

DivStep(st, limb, b) == DivStepAt(st.q, Trim(<< limb >> \o st.r), b)

\* Long division of the digits hi down to lo of a by b, from the quotient
\* and remainder st.
RECURSIVE DivDigits(_, _, _, _, _)
DivDigits(a, b, lo, hi, st) ==
    IF st.r = << >> /\ \A i \in lo..hi : a[i] = 0
    THEN [q |-> [ i \in 1..(hi - lo + 1) |-> 0 ] \o st.q, r |-> << >>]
    ELSE IF lo = hi THEN DivStep(st, a[lo], b)
    ELSE DivDigits(a, b, lo, (lo + hi) \div 2,
                   DivDigits(a, b, ((lo + hi) \div 2) + 1, hi, st))

\* The quotient and remainder st of a division whose operands were
\* multiplied by 2^s.
Unshifted(st, s) == [q |-> Trim(st.q), r |-> ShiftRight(st.r, s)]

\* a \div b and a % b, both multiplied by 2^s so that the highest digit of
\* b is at least Base / 2.
DivShifted(a, b, s) ==
    IF Len(a) < Len(b) THEN [q |-> << >>, r |-> ShiftRight(a, s)]
    ELSE Unshifted(
             DivDigits(a, b, 1, Len(a) - Len(b) + 1,
                       [q |-> << >>,
                        r |-> Trim(SubSeq(a, Len(a) - Len(b) + 2, Len(a)))]),
             s)

DivBy(a, b, s) ==
    IF a = << >> THEN [q |-> << >>, r |-> << >>]
    ELSE DivShifted(ShiftLeft(a, s), ShiftLeft(b, s), s)

\* a \div b and a % b for b # 0.
NatDivMod(a, b) == DivBy(a, b, Len(b) * LimbBits - BitLen(b))

----------------------------------------------------------------------------
(* Python ints: a sign and a natural number; 0 has the sign FALSE. *)

MakeInt(neg, mag) == [neg |-> neg /\ mag # << >>, mag |-> mag]

\* The int i, -2^31 < i < 2^31.
PyInt(i) == MakeInt(i < 0, NatFromInt(Abs(i)))

\* The int 2^k.
PyPow2(k) == MakeInt(FALSE, ShiftLeft(<< 1 >>, k))

IntIsZero(a) == a.mag = << >>

IntAdd(a, b) ==
    IF b.mag = << >> THEN a
    ELSE IF a.mag = << >> THEN b
    ELSE IF a.neg = b.neg THEN MakeInt(a.neg, NatAdd(a.mag, b.mag))
    ELSE IF NatLess(a.mag, b.mag) THEN MakeInt(b.neg, NatSub(b.mag, a.mag))
    ELSE MakeInt(a.neg, NatSub(a.mag, b.mag))

\* a < b.
IntLess(a, b) ==
    IF a.neg # b.neg THEN a.neg
    ELSE IF a.neg THEN NatLess(b.mag, a.mag)
    ELSE NatLess(a.mag, b.mag)

\* a * m for a TLC integer m >= 0.
IntTimes(a, m) == MakeInt(a.neg, NatMul(a.mag, NatFromInt(m)))

\* a // d for 1 <= d <= Base: the quotient rounded toward minus infinity.
IntFloorDiv(a, d) ==
    IF a.neg
    THEN MakeInt(TRUE, NatDivSmall(NatAdd(a.mag, NatFromInt(d - 1)), d))
    ELSE MakeInt(FALSE, NatDivSmall(a.mag, d))

----------------------------------------------------------------------------
(* Floats (IEEE 754 binary64, what Python's float and np.float64 are).  A  *)
(* float is the record [kind, neg, man, exp]: kind "fin" is the number     *)
(* (-1)^neg * man * 2^exp with 2^52 <= man < 2^53, or 0 with man = << >>;  *)
(* kind "inf" is +inf or -inf by neg; kind "nan" is nan.  Every operation  *)
(* of the hardware rounds its exact result to the nearest float, ties to   *)
(* the even mantissa.  The sign of a zero is not kept (no operation of the *)
(* program tells +0.0 from -0.0), and exponents are not bounded: the       *)
(* results explored stay far from the overflow and underflow thresholds.   *)

MantissaBits == 53

Zero == [kind |-> "fin", neg |-> FALSE, man |-> << >>, exp |-> 0]
Inf(neg) == [kind |-> "inf", neg |-> neg, man |-> << >>, exp |-> 0]
MinusInf == Inf(TRUE)
NaN == [kind |-> "nan", neg |-> FALSE, man |-> << >>, exp |-> 0]

MakeFloat(neg, man, exp) ==
    [kind |-> "fin", neg |-> neg, man |-> man, exp |-> exp]

\* n / 2^s for s > 0, rounded to the nearest natural number, a tie to the
\* even one.
RoundedShift(n, s) ==
    NatAdd(ShiftRight(n, s),
           IF /\ Bit(n, s - 1) = 1
              /\ LowBitsSet(n, s - 1) \/ Bit(n, s) = 1
           THEN << 1 >> ELSE << >>)

\* The float m * 2^e for m <= 2^53: rounding up may have given 2^53.
Renormalize(neg, m, e) ==
    IF BitLen(m) > MantissaBits
    THEN MakeFloat(neg, ShiftRight(m, 1), e + 1)
    ELSE MakeFloat(neg, m, e)

\* The float nearest to (-1)^neg * n * 2^e for n > 0 with s binary digits
\* more than a mantissa has.
RoundBits(neg, n, e, s) ==
    IF s <= 0 THEN MakeFloat(neg, ShiftLeft(n, 0 - s), e + s)
    ELSE Renormalize(neg, RoundedShift(n, s), e + s)

\* The float nearest to (-1)^neg * n * 2^e, n a natural number.
RoundToDouble(neg, n, e) ==
    IF n = << >> THEN Zero
    ELSE RoundBits(neg, n, e, BitLen(n) - MantissaBits)

\* The float of the largest magnitude that is not above n * 2^e, for n > 0
\* with s binary digits more than a mantissa has.
TruncBits(neg, n, e, s) ==
    IF s <= 0 THEN MakeFloat(neg, ShiftLeft(n, 0 - s), e + s)
    ELSE MakeFloat(neg, ShiftRight(n, s), e + s)

TruncToDouble(neg, n, e) ==
    IF n = << >> THEN Zero
    ELSE TruncBits(neg, n, e, BitLen(n) - MantissaBits)

\* The float next to x, a finite float other than 0, away from 0.
NextAway(x) == Renormalize(x.neg, NatAdd(x.man, << 1 >>), x.exp)

\* float(i) of a Python int of any size.
FloatOfInt(a) == RoundToDouble(a.neg, a.mag, 0)

\* float(i) of an int, -2^31 < i < 2^31.
FromInt(i) == FloatOfInt(PyInt(i))

One == FromInt(1)

\* Binary digits a quotient is computed to before rounding: more than a
\* mantissa has, so that with the remainder the rounding is exact.
QuotientBits == 56

\* The float nearest to (d.q + a fraction that is 0 when the remainder d.r
\* is) / 2^k.
RoundQuotient(neg, d, k) ==
    RoundToDouble(neg, Double(d.q, IF d.r = << >> THEN 0 ELSE 1), 0 - k - 1)

\* The float nearest to num / den, natural numbers, the quotient computed
\* with k binary places.
DivScaled(neg, num, den, k) ==
    RoundQuotient(neg, NatDivMod(ShiftLeft(num, k), den), k)

\* Python's num / den on ints, den # 0: the float nearest to the quotient.
TrueDiv(num, den) ==
    DivScaled(num.neg # den.neg, num.mag, den.mag,
              Max(0, QuotientBits + BitLen(den.mag) - BitLen(num.mag)))

\* a * b on floats.
FloatMul(a, b) ==
    IF a.kind = "nan" \/ b.kind = "nan" THEN NaN
    ELSE IF a.kind = "inf" \/ b.kind = "inf"
    THEN (IF (a.kind = "fin" /\ a.man = << >>)
                \/ (b.kind = "fin" /\ b.man = << >>)
          THEN NaN ELSE Inf(a.neg # b.neg))
    ELSE RoundToDouble(a.neg # b.neg, NatMul(a.man, b.man), a.exp + b.exp)

\* a + b on finite floats with mantissas x and b.man counted in the same
\* unit 2^b.exp.
AddMantissas(a, b, x) ==
    RoundToDouble(IF a.neg # b.neg /\ NatLess(x, b.man) THEN b.neg ELSE a.neg,
                  IF a.neg = b.neg THEN NatAdd(x, b.man)
                  ELSE IF NatLess(x, b.man) THEN NatSub(b.man, x)
                  ELSE NatSub(x, b.man),
                  b.exp)

\* a + b on finite floats other than 0, a's exponent not below b's.
AddAligned(a, b) == AddMantissas(a, b, ShiftLeft(a.man, a.exp - b.exp))

\* a + b on floats.
FloatAdd(a, b) ==
    IF a.kind = "nan" \/ b.kind = "nan" THEN NaN
    ELSE IF a.kind = "inf"
    THEN (IF b.kind = "inf" /\ b.neg # a.neg THEN NaN ELSE a)
    ELSE IF b.kind = "inf" THEN b
    ELSE IF a.man = << >> THEN b
    ELSE IF b.man = << >> THEN a
    ELSE AddAligned(IF a.exp >= b.exp THEN a ELSE b,
                    IF a.exp >= b.exp THEN b ELSE a)

\* |a| < |b| on finite floats.
MagLess(a, b) ==
    IF b.man = << >> THEN FALSE
    ELSE IF a.man = << >> THEN TRUE
    ELSE \/ a.exp < b.exp
         \/ a.exp = b.exp /\ NatLess(a.man, b.man)

\* a < b on floats other than nan.
FloatLess(a, b) ==
    IF a.kind = "inf" THEN a.neg /\ ~ (b.kind = "inf" /\ b.neg)
    ELSE IF b.kind = "inf" THEN ~ b.neg
    ELSE IF a.neg /\ ~ b.neg THEN TRUE
    ELSE IF ~ a.neg /\ b.neg THEN FALSE
    ELSE IF a.neg THEN MagLess(b, a)
    ELSE MagLess(a, b)

\* Python's a > b on floats: false when either is nan.
FloatGt(a, b) == a.kind # "nan" /\ b.kind # "nan" /\ FloatLess(b, a)

----------------------------------------------------------------------------
(* np.log (main.py 39).  At 1 the result is 0, at 0 it is -inf, below 0    *)
(* and at nan it is nan, at +inf it is +inf.  Everywhere else the natural  *)
(* logarithm is no float, and the library returns one of the two floats    *)
(* next to it: which one is a matter of the library build, and the nearest *)
(* one is not always chosen.  LogBracket gives both.  The logarithm is      *)
(* computed in fixed point with LogBits binary places (a natural number n  *)
(* stands for n / 2^LogBits).                                              *)

LogLimbs == 12
LogBits == LogLimbs * LimbBits

\* The integer part of p / Base^k.
DropLimbs(p, k) == IF Len(p) <= k THEN << >> ELSE SubSeq(p, k + 1, Len(p))

\* a * b of two fixed-point numbers.
FixMul(a, b) == DropLimbs(NatMul(a, b), LogLimbs)

\* Most terms a series of atanh is summed to.
SeriesTerms == 64

\* Terms lo..hi of the series z + z^3/3 + z^5/5 + ... of atanh added to
\* st.acc, st.t being z^(2 * lo - 1) and z2 being z^2; the terms are 0 once
\* the power is.
RECURSIVE AtanhTerms(_, _, _, _)
AtanhTerms(st, z2, lo, hi) ==
    IF st.t = << >> THEN st
    ELSE IF lo = hi
    THEN [t |-> FixMul(st.t, z2),
          acc |-> NatAdd(st.acc, NatDivSmall(st.t, 2 * lo - 1))]
    ELSE AtanhTerms(AtanhTerms(st, z2, lo, (lo + hi) \div 2), z2,
                    ((lo + hi) \div 2) + 1, hi)

\* atanh(z) of a fixed-point number z <= 1/3.
AtanhFix(z) ==
    IF z = << >> THEN << >>
    ELSE AtanhTerms([t |-> z, acc |-> << >>], FixMul(z, z), 1, SeriesTerms).acc

\* atanh(num/den) for natural numbers num < den, 3 * num <= den.
Atanh(num, den) == AtanhFix(NatDivMod(ShiftLimbs(num, LogLimbs), den).q)

\* ln 2 = 2 * atanh(1/3).
LN2 == Double(Atanh(<< 1 >>, << 3 >>), 0)

\* The two floats next to a logarithm that is no float: x is the one nearer
\* to 0.
Bracket(x) ==
    IF x.neg THEN [below |-> NextAway(x), above |-> x]
    ELSE [below |-> x, above |-> NextAway(x)]

\* The floats next to k * ln 2 + a (a subtracted when below is true), kln2
\* being |k| * ln 2 and a < ln 2.
LogSum(k, below, a, kln2) ==
    Bracket(TruncToDouble(k < 0 \/ (k = 0 /\ below),
                          IF k # 0 /\ (k > 0) = below THEN NatSub(kln2, a)
                          ELSE NatAdd(kln2, a),
                          0 - LogBits))

\* ln(m * 2^k) for m = man / one, 3/4 <= m < 3/2; m is below 1 when
\* below is true: k * ln 2 + 2 * atanh((m - 1)/(m + 1)).
LogReduced(man, one, k, below) ==
    LogSum(k, below,
           Double(Atanh(IF below THEN NatSub(one, man) ELSE NatSub(man, one),
                        NatAdd(man, one)), 0),
           NatMulSmall(LN2, Abs(k)))

\* ln(man * 2^exp) for a mantissa 2^52 <= man < 2^53: man * 2^exp is
\* (man / 2^52) * 2^(exp + 52), or (man / 2^53) * 2^(exp + 53) when
\* man / 2^52 >= 3/2.
LogPos(man, exp) ==
    IF NatLess(man, ShiftLeft(<< 3 >>, MantissaBits - 2))
    THEN LogReduced(man, ShiftLeft(<< 1 >>, MantissaBits - 1),
                    exp + MantissaBits - 1, FALSE)
    ELSE LogReduced(man, ShiftLeft(<< 1 >>, MantissaBits),
                    exp + MantissaBits, TRUE)

\* np.log(x) is the same in every build: x is 1, 0, negative, nan or inf.
LogIsExact(x) == x.kind # "fin" \/ x.man = << >> \/ x.neg \/ x = One

\* np.log(x) where every build agrees.
ExactLog(x) ==
    IF x.kind = "nan" THEN NaN
    ELSE IF x.kind = "inf" THEN (IF x.neg THEN NaN ELSE x)
    ELSE IF x.man = << >> THEN MinusInf
    ELSE IF x.neg THEN NaN
    ELSE Zero

\* The float below and the float above ln(x), for x where builds can
\* differ.
LogBracket(x) == LogPos(x.man, x.exp)

\* The results np.log(x) can have.
np_log_outcomes(x) ==
    IF LogIsExact(x) THEN { ExactLog(x) }
    ELSE { LogBracket(x).below, LogBracket(x).above }

----------------------------------------------------------------------------
(* Stage (main.py 22-47) *)

Stage(propellant, dry_mass, propellant_mass, payload_mass) ==
    [propellant |-> propellant, dry_mass |-> dry_mass,
     propellant_mass |-> propellant_mass, payload_mass |-> payload_mass]

\* The input stages explored, each with the propellant it was built with
\* and its masses as Python ints: a stage that burns (mass ratio 2), a
\* stage without propellant, a stage with no dry and no payload mass, a
\* stage whose masses give a ratio below 1, a burning stage whose mass
\* ratio is the float next above 1, so that its delta_v is a few units in
\* the last place of the delta_v of the first stage, and a burning stage
\* whose mass ratio rounds to the float 1.
InputStages ==
    { Stage(PROPELLANTS[1], PyInt(1), PyInt(1), PyInt(0)),
      Stage(PROPELLANTS[2], PyInt(1), PyInt(0), PyInt(1)),
      Stage(PROPELLANTS[2], PyInt(0), PyInt(1), PyInt(0)),
      Stage(PROPELLANTS[1], PyInt(2), PyInt(0 - 1), PyInt(0)),
      Stage(PROPELLANTS[4], PyPow2(52), PyInt(1), PyInt(0)),
      Stage(PROPELLANTS[3], PyPow2(54), PyInt(1), PyInt(0)) }

\* Stage.total_mass
total_mass(s) == IntAdd(IntAdd(s.dry_mass, s.propellant_mass), s.payload_mass)

\* mass_ratio divides by dry_mass + payload_mass; 0 there raises
\* ZeroDivisionError in the program.
mass_ratio_raises(s) == IntIsZero(IntAdd(s.dry_mass, s.payload_mass))

\* The three masses of a stage.
Masses(s) == << s.dry_mass, s.propellant_mass, s.payload_mass >>

\* Stage.mass_ratio of the input stages, computed once.
MassRatioOfInputStages ==
    { << Masses(s),
         TrueDiv(total_mass(s), IntAdd(s.dry_mass, s.payload_mass)) >> :
        s \in { y \in InputStages : ~ mass_ratio_raises(y) } }

\* Stage.mass_ratio: the float total_mass / (dry_mass + payload_mass);
\* defined when mass_ratio_raises is false.
mass_ratio(s) ==
    IF \E p \in MassRatioOfInputStages : p[1] = Masses(s)
    THEN (CHOOSE p \in MassRatioOfInputStages : p[1] = Masses(s))[2]
    ELSE TrueDiv(total_mass(s), IntAdd(s.dry_mass, s.payload_mass))

\* The mass ratios of the stages in Y whose logarithm depends on the build.
InexactRatios(Y) ==
    { x \in { mass_ratio(s) : s \in { y \in Y : ~ mass_ratio_raises(y) } } :
        ~ LogIsExact(x) }

\* LogBracket of the input stages' mass ratios, computed once.
LogOfInputRatios ==
    { << x, LogBracket(x) >> : x \in InexactRatios(InputStages) }

\* The float below and the float above ln(x).
LogBelowAbove(x) ==
    IF \E p \in LogOfInputRatios : p[1] = x
    THEN (CHOOSE p \in LogOfInputRatios : p[1] = x)[2]
    ELSE LogBracket(x)

\* np.log(x) in a build that returns the float above the logarithm on the
\* arguments where up is true.
np_log_build(x, up) ==
    IF LogIsExact(x) THEN ExactLog(x)
    ELSE IF up[x] THEN LogBelowAbove(x).above
    ELSE LogBelowAbove(x).below

\* Stage.g0 = 9.81: the float nearest to 981/100.
g0 == TrueDiv(PyInt(981), PyInt(100))

\* g0 * isp * x as Python evaluates it: (g0 * float(isp)) * x.
TimesG0Isp(x, isp) == FloatMul(FloatMul(g0, FromInt(isp)), x)

\* Stage.propellant_volume, in 1/1000000 m^3.
propellant_volume(s) ==
    IntFloorDiv(IntTimes(s.propellant_mass, 1000000), s.propellant.density)

----------------------------------------------------------------------------
(* generate_combinations (main.py 80-95) *)

RECURSIVE recursive_generate_combinations(_, _, _, _), ForEachProp(_, _, _, _, _)
\* What one call appends to `result`, in order.
recursive_generate_combinations(possible_options, n, current_combo, depth) ==
    IF depth = n THEN << current_combo >>
    ELSE ForEachProp(possible_options, n, current_combo, depth, 1)

\* The loop `for prop in possible_options`, from its k-th iteration on.
ForEachProp(possible_options, n, current_combo, depth, k) ==
    IF k > Len(possible_options) THEN << >>
    ELSE recursive_generate_combinations(
             possible_options, n,
             current_combo \o << possible_options[k] >>, depth + 1)
         \o ForEachProp(possible_options, n, current_combo, depth, k + 1)

\* A generator that never uses an option twice in one sequence.
RECURSIVE GenNoRepeat(_, _, _, _, _)
GenNoRepeat(possible_options, n, current_combo, depth, k) ==
    IF depth = n THEN << current_combo >>
    ELSE IF k > Len(possible_options) THEN << >>
    ELSE (IF possible_options[k] \in Range(current_combo) THEN << >>
          ELSE GenNoRepeat(possible_options, n,
                           current_combo \o << possible_options[k] >>,
                           depth + 1, 1))
         \o GenNoRepeat(possible_options, n, current_combo, depth, k + 1)

generate_combinations_no_repeat(possible_options, n) ==
    GenNoRepeat(possible_options, n, << >>, 0, 1)

\* A generator that puts each new option in front of the sequence.
RECURSIVE GenPrepend(_, _, _, _, _)
GenPrepend(possible_options, n, current_combo, depth, k) ==
    IF depth = n THEN << current_combo >>
    ELSE IF k > Len(possible_options) THEN << >>
    ELSE GenPrepend(possible_options, n,
                    << possible_options[k] >> \o current_combo, depth + 1, 1)
         \o GenPrepend(possible_options, n, current_combo, depth, k + 1)

generate_combinations_prepend(possible_options, n) ==
    GenPrepend(possible_options, n, << >>, 0, 1)

generate_combinations(possible_options, n) ==
    recursive_generate_combinations(possible_options, n, << >>, 0)

----------------------------------------------------------------------------
(* find_all_stage_combinations (main.py 64-77) *)

\* Heap index of the Stage built for position i of candidate c, the heap
\* holding h0 objects before the call and each candidate having n stages.
NewStageId(h0, n, c, i) == h0 + (c - 1) * n + i

\* A constructor call that keeps the input stage's own propellant.
NewStageKeepsPropellant(hp, stgs, combination, i) ==
    Stage(hp[stgs[i]].propellant, hp[stgs[i]].dry_mass,
          hp[stgs[i]].propellant_mass, hp[stgs[i]].payload_mass)

\* The Stage constructed at line 72 for position i of `combination`.
NewStage(hp, stgs, combination, i) ==
    Stage(combination[i], hp[stgs[i]].dry_mass,
          hp[stgs[i]].propellant_mass, hp[stgs[i]].payload_mass)

\* A version that assigns the propellant to the input stages in place and
\* returns the input stages as every candidate.
find_all_stage_combinations_in_place(hp, stgs, cat) ==
    LET n     == Len(stgs)
        combs == generate_combinations(cat, n)
        last  == combs[Len(combs)]
    IN  [ heap |-> IF Len(combs) = 0 THEN hp
                   ELSE [ k \in 1..Len(hp) |->
                            IF k <= n
                            THEN [ hp[k] EXCEPT !.propellant = last[k] ]
                            ELSE hp[k] ],
          combinations |-> combs,
          stage_combinations |-> [ c \in 1..Len(combs) |-> stgs ] ]

\* The whole function: the heap after it, the propellant sequences it got
\* from generate_combinations and the list of lists of Stage it returns.
find_all_stage_combinations(hp, stgs, cat) ==
    LET n     == Len(stgs)
        combs == generate_combinations(cat, n)
        h0    == Len(hp)
        fresh == [ k \in 1..(Len(combs) * n) |->
                     NewStage(hp, stgs, combs[((k - 1) \div n) + 1],
                              ((k - 1) % n) + 1) ]
    IN  [ heap |-> hp \o fresh,
          combinations |-> combs,
          stage_combinations |->
              [ c \in 1..Len(combs) |->
                  [ i \in 1..n |-> NewStageId(h0, n, c, i) ] ] ]

----------------------------------------------------------------------------
(* State *)

VARIABLES
    catalog,             \* PROPELLANTS as the run sees it (a sequence)
    heap,                \* the Stage objects, by identity
    stages,              \* the input list: identities of the input stages
    limits,              \* the per-stage volume limits the caller has
    np_log_up,           \* the build's np.log: where it returns the float above
    combinations,        \* generate_combinations' result
    stage_combinations,  \* find_all_stage_combinations' result (identities)
    pc,                  \* "start", "best", "loop", "done"
    idx,                 \* position of find_best_rocket's loop
    highest_delta_v,     \* find_best_rocket's running maximum
    best_rocket,         \* index of the combination best_rocket wraps
    result               \* what the run ended with

vars == << catalog, heap, stages, limits, np_log_up, combinations,
           stage_combinations, pc, idx, highest_delta_v, best_rocket,
           result >>

----------------------------------------------------------------------------
(* Stage.mass_ratio's logarithm and Stage.delta_v (main.py 38-39) *)

\* np.log of a float, as the build of this run computes it.
np_log(x) == np_log_build(x, np_log_up)

\* A delta_v that forgets the specific impulse.
delta_v_without_isp(s) == TimesG0Isp(np_log(mass_ratio(s)), 1)

\* Stage.delta_v in a build that returns the float above the logarithm on
\* the arguments where up is true.
delta_v_build(s, up) ==
    TimesG0Isp(np_log_build(mass_ratio(s), up), s.propellant.isp)

\* The stages a candidate can hold: an input stage's masses with a
\* propellant of PROPELLANTS.
CandidateStages ==
    { Stage(q, x.dry_mass, x.propellant_mass, x.payload_mass) :
        q \in Range(PROPELLANTS),
        x \in { y \in InputStages : ~ mass_ratio_raises(y) } }

\* Stage.delta_v of the candidate stages, computed once: the stage, its
\* mass ratio, and its delta_v in a build whose np.log returns the float
\* below and in one whose np.log returns the float above.
DeltaVOfCandidateStages ==
    { << s, mass_ratio(s),
         delta_v_build(s, [ x \in { mass_ratio(s) } |-> FALSE ]),
         delta_v_build(s, [ x \in { mass_ratio(s) } |-> TRUE ]) >> :
        s \in CandidateStages }

\* The delta_v of the entry p of DeltaVOfCandidateStages in the build of
\* this run.
DeltaVInThisBuild(p) ==
    IF LogIsExact(p[2]) THEN p[3]
    ELSE IF np_log_up[p[2]] THEN p[4]
    ELSE p[3]

\* Stage.delta_v, in m/s; defined when mass_ratio does not raise.
delta_v(s) ==
    IF s \in CandidateStages
    THEN DeltaVInThisBuild(CHOOSE p \in DeltaVOfCandidateStages : p[1] = s)
    ELSE TimesG0Isp(np_log(mass_ratio(s)), s.propellant.isp)

----------------------------------------------------------------------------
(* Rocket (main.py 50-55).  A Rocket holds the list of stages it was built *)
(* from; the model passes that list of Stage records.                      *)

\* sum(...): acc + delta_v of stages k.., added left to right.
RECURSIVE SumDeltaV(_, _, _)
SumDeltaV(stgs, k, acc) ==
    IF k > Len(stgs) THEN acc
    ELSE SumDeltaV(stgs, k + 1, FloatAdd(acc, delta_v(stgs[k])))

\* Rocket.total_delta_v: the sum raises as soon as one stage's delta_v does.
total_delta_v_raises(stgs) ==
    \E k \in 1..Len(stgs) : mass_ratio_raises(stgs[k])

total_delta_v(stgs) == SumDeltaV(stgs, 1, FromInt(0))

----------------------------------------------------------------------------
(* The run: main (main.py 119-120) on a list of input stages *)

\* Volume limits a caller may hold, in 1/1000000 m^3; a run has none, or the
\* same one for every stage.
LimitChoices == { 2000 }

\* The Stage records of a list of identities.
StagesOf(ids) == [ k \in 1..Len(ids) |-> heap[ids[k]] ]

Init ==
    /\ catalog \in Catalogs
    /\ \E n \in 0..MaxStages :
          /\ heap \in [1..n -> InputStages]
          /\ stages = [ k \in 1..n |-> k ]
          /\ limits \in { [supplied |-> FALSE, max |-> << >>] }
                        \cup { [supplied |-> TRUE,
                                 max |-> [ k \in 1..n |-> m ]] :
                                 m \in LimitChoices }
    /\ np_log_up \in [InexactRatios(Range(heap)) -> BOOLEAN]
    /\ combinations = << >>
    /\ stage_combinations = << >>
    /\ pc = "start"
    /\ idx = 0
    /\ highest_delta_v = FromInt(0)
    /\ best_rocket = 0
    /\ result = [kind |-> "none", rocket |-> 0]

\* main.py 119: combinations = find_all_stage_combinations(stages)
FindAllStageCombinations ==
    /\ pc = "start"
    /\ LET r == find_all_stage_combinations(heap, stages, catalog)
       IN  /\ heap' = r.heap
           /\ combinations' = r.combinations
           /\ stage_combinations' = r.stage_combinations
    /\ pc' = "best"
    /\ UNCHANGED << catalog, stages, limits, np_log_up, idx, highest_delta_v,
                    best_rocket, result >>

\* main.py 99-100: highest_delta_v = -1; best_rocket = Rocket(combinations[0])
\* combinations[0] of an empty list raises IndexError, after line 99 has run.
FindBestRocketStart ==
    /\ pc = "best"
    /\ IF Len(stage_combinations) = 0
       THEN /\ highest_delta_v' = FromInt(0 - 1)
            /\ result' = [kind |-> "IndexError", rocket |-> 0]
            /\ pc' = "done"
            /\ UNCHANGED << best_rocket, idx >>
       ELSE /\ highest_delta_v' = FromInt(0 - 1)
            /\ best_rocket' = 1
            /\ idx' = 1
            /\ pc' = "loop"
            /\ UNCHANGED result
    /\ UNCHANGED << catalog, heap, stages, limits, np_log_up, combinations,
                    stage_combinations >>

\* main.py 101-106: one iteration of the loop.  total_delta_v may raise
\* ZeroDivisionError, which nothing catches.
FindBestRocketIter ==
    /\ pc = "loop"
    /\ idx <= Len(stage_combinations)
    /\ LET rocket  == StagesOf(stage_combinations[idx])
           delta_v_ == total_delta_v(rocket)
       IN  IF total_delta_v_raises(rocket)
           THEN /\ result' = [kind |-> "ZeroDivisionError", rocket |-> 0]
                /\ pc' = "done"
                /\ UNCHANGED << highest_delta_v, best_rocket, idx >>
           ELSE /\ IF FloatGt(delta_v_, highest_delta_v)
                   THEN /\ highest_delta_v' = delta_v_
                        /\ best_rocket' = idx
                   ELSE UNCHANGED << highest_delta_v, best_rocket >>
                /\ idx' = idx + 1
                /\ UNCHANGED << result, pc >>
    /\ UNCHANGED << catalog, heap, stages, limits, np_log_up, combinations,
                    stage_combinations >>

\* main.py 107: return best_rocket
FindBestRocketReturn ==
    /\ pc = "loop"
    /\ idx > Len(stage_combinations)
    /\ result' = [kind |-> "rocket", rocket |-> best_rocket]
    /\ pc' = "done"
    /\ UNCHANGED << catalog, heap, stages, limits, np_log_up, combinations,
                    stage_combinations, idx, highest_delta_v, best_rocket >>

Next ==
    \/ FindAllStageCombinations
    \/ FindBestRocketStart
    \/ FindBestRocketIter
    \/ FindBestRocketReturn

Spec == Init /\ [][Next]_vars

----------------------------------------------------------------------------
(* Properties *)

RECURSIVE Pow(_, _)
Pow(b, e) == IF e = 0 THEN 1 ELSE b * Pow(b, e - 1)

NStages == Len(stages)
NCandidates == Len(stage_combinations)

\* The Stage records of candidate c.
Candidate(c) == StagesOf(stage_combinations[c])

\* The score find_best_rocket computes for candidate c.
Score(c) == total_delta_v(Candidate(c))

\* The scores of all candidates, in generation order.
Scores == << >> \o [ c \in 1..NCandidates |-> Score(c) ]

Returned == pc = "done" /\ result.kind = "rocket"

\* Candidate c has a stage whose propellant volume exceeds its limit.
ExceedsLimit(c) ==
    \E i \in 1..NStages :
        IntLess(PyInt(limits.max[i]), propellant_volume(Candidate(c)[i]))

\* C1: candidate generation yields exactly |catalog|^N sequences, each of
\* length N, and find_all_stage_combinations one candidate per sequence
\* (one empty candidate for N = 0, one candidate for a catalog of one).
C1_CandidateCount ==
    pc = "best" =>
        /\ Len(combinations) = Pow(Len(catalog), NStages)
        /\ \A c \in 1..Len(combinations) : Len(combinations[c]) = NStages
        /\ NCandidates = Pow(Len(catalog), NStages)

C1_Witness ==
    /\ pc = "best"
    /\ Len(catalog) = 3
    /\ NStages = 2
    /\ Len(combinations) = 9

\* No score of sc exceeds the score of candidate r.
NoneExceeds(sc, r) == \A c \in DOMAIN sc : ~ FloatGt(sc[c], sc[r])

\* C2: the rocket find_best_rocket returns is a candidate whose
\* total_delta_v() no other candidate exceeds.
C2_ReturnsMaximum ==
    Returned =>
        /\ result.rocket \in 1..NCandidates
        /\ NoneExceeds(Scores, result.rocket)

\* The candidates whose score no score of sc exceeds.
Maxima(sc) == { c \in DOMAIN sc : NoneExceeds(sc, c) }

\* Candidate r is the first of the maxima M, when there are two at least.
FirstOfTied(M, r) ==
    Cardinality(M) >= 2 => (r \in M /\ \A c \in M : r <= c)

\* C3: when several candidates share the maximal total_delta_v(), the
\* rocket returned is the first of them in generation order.
C3_FirstOfTiedMaxima ==
    Returned => FirstOfTied(Maxima(Scores), result.rocket)

\* C4: with volume limits supplied, the rocket returned has no stage whose
\* propellant volume exceeds that stage's limit.
C4_VolumeLimitRespected ==
    (Returned /\ limits.supplied) => ~ ExceedsLimit(result.rocket)

\* C5: when no candidate exists (none generated, or every one excluded by
\* the supplied volume limits) the run ends in NoFeasibleSolutionError.
C5_NoCandidateFails ==
    LET NoCandidate ==
            \/ NCandidates = 0
            \/ limits.supplied /\ \A c \in 1..NCandidates : ExceedsLimit(c)
    IN  (pc = "done" /\ NoCandidate) =>
            result.kind = "NoFeasibleSolutionError"

\* C6: with an input stage of dry_mass + payload_mass = 0 and
\* propellant_mass > 0, the search ends in InvalidConfigurationError and
\* returns no rocket.
C6_ZeroDryMassFails ==
    LET Broken == \E k \in 1..NStages :
                      /\ mass_ratio_raises(heap[stages[k]])
                      /\ IntLess(PyInt(0), heap[stages[k]].propellant_mass)
    IN  (pc = "done" /\ Broken /\ NCandidates > 0) =>
            result.kind = "InvalidConfigurationError"

\* C7: no step changes the catalog, the input list or an input stage, and
\* no stage of a candidate is one of the input Stage objects.
C7_ReadOnly ==
    /\ [][ /\ catalog' = catalog
           /\ stages' = stages
           /\ \A k \in 1..Len(stages) : heap'[stages[k]] = heap[stages[k]]
         ]_vars
    /\ [](\A c \in 1..NCandidates : \A i \in 1..Len(stage_combinations[c]) :
              stage_combinations[c][i] \notin Range(stages))

C7_Witness ==
    /\ Returned
    /\ NStages = 2
    /\ NCandidates >= 4
    /\ Candidate(result.rocket)[1].propellant # heap[stages[1]].propellant

\* Candidate d is candidate c with the propellant of stage i replaced by
\* one of strictly higher isp.
ReplacesWithHigherIsp(c, d, i) ==
    /\ combinations[d][i].isp > combinations[c][i].isp
    /\ \A j \in 1..NStages : j # i => combinations[c][j] = combinations[d][j]

\* A stage the data model calls valid: no negative mass, and a positive
\* dry_mass + payload_mass.
ValidStage(s) ==
    /\ ~ s.dry_mass.neg /\ ~ s.propellant_mass.neg /\ ~ s.payload_mass.neg
    /\ ~ mass_ratio_raises(s)

ValidInput == \A k \in 1..NStages : ValidStage(heap[stages[k]])

\* Every replacement of one propellant by one of strictly higher isp
\* strictly increases the score, sc being the candidates' scores.
AlwaysIncreases(sc) ==
    \A c, d \in DOMAIN sc : \A i \in 1..NStages :
        ReplacesWithHigherIsp(c, d, i) => FloatGt(sc[d], sc[c])

\* C8 as stated: for valid stages, replacing stage i's propellant with one
\* of strictly higher isp strictly increases the candidate's
\* total_delta_v().
C8_StrictlyMonotone ==
    (pc = "best" /\ ValidInput) => AlwaysIncreases(Scores)

\* Stage i's mass_ratio() is the float 1.
RatioIsOne(i) == mass_ratio(heap[stages[i]]) = One

\* No replacement of one propellant by one of strictly higher isp lowers
\* the score; it leaves the score as it is when the stage's mass ratio is
\* 1, and it strictly increases the stage's own delta_v() when not.
NeverDecreases(sc) ==
    \A c, d \in DOMAIN sc : \A i \in 1..NStages :
        ReplacesWithHigherIsp(c, d, i) =>
            /\ ~ FloatGt(sc[c], sc[d])
            /\ RatioIsOne(i) => sc[d] = sc[c]
            /\ ~ RatioIsOne(i) =>
                  FloatGt(delta_v(Candidate(d)[i]), delta_v(Candidate(c)[i]))

\* C8 amended: for valid stages, replacing stage i's propellant with one of
\* the catalog of strictly higher isp never lowers the candidate's
\* total_delta_v(); it leaves total_delta_v() unchanged when stage i's
\* mass_ratio() is the float 1.0 (propellant_mass = 0, or too small for
\* the quotient to round above 1.0), and otherwise it strictly increases
\* stage i's own delta_v(), an increase the rounded sum of the stages can
\* absorb.
C8_NeverDecreases ==
    (pc = "best" /\ ValidInput) => NeverDecreases(Scores)

\* A replacement whose increase the sum absorbs: the second stage's own
\* delta_v() grows and the total stays as it was.
C8_Witness ==
    /\ pc = "best"
    /\ ValidInput
    /\ NStages = 2
    /\ ~ RatioIsOne(1) /\ ~ RatioIsOne(2)
    /\ \E c, d \in 1..NCandidates :
          /\ ReplacesWithHigherIsp(c, d, 2)
          /\ FloatGt(delta_v(Candidate(d)[2]), delta_v(Candidate(c)[2]))
          /\ Score(d) = Score(c)
          /\ Score(c).kind = "fin"

\* C9: each candidate has N stages; stage i has the three masses of input
\* stage i and the i-th propellant of the candidate's sequence.
C9_CandidateStages ==
    pc = "best" =>
        /\ NCandidates = Len(combinations)
        /\ \A c \in 1..NCandidates :
              /\ Len(stage_combinations[c]) = NStages
              /\ \A i \in 1..NStages :
                    LET s  == Candidate(c)[i]
                        inp == heap[stages[i]]
                    IN  /\ s.dry_mass = inp.dry_mass
                        /\ s.propellant_mass = inp.propellant_mass
                        /\ s.payload_mass = inp.payload_mass
                        /\ s.propellant = combinations[c][i]

C9_Witness ==
    /\ pc = "best"
    /\ NStages = 2
    /\ \E c \in 1..NCandidates :
          /\ Candidate(c)[1].propellant # heap[stages[1]].propellant
          /\ Candidate(c)[2].propellant # Candidate(c)[1].propellant
          /\ Candidate(c)[2].payload_mass = PyInt(1)

\* Position of a propellant in the catalog's iteration order.
CatalogIndex(p) == CHOOSE k \in 1..Len(catalog) : catalog[k] = p

\* Sequence a comes before sequence b in lexicographic order, position 0
\* most significant, propellants ordered as the catalog iterates them.
LexLess(a, b) ==
    \E i \in 1..Len(a) :
        /\ \A j \in 1..(i - 1) : a[j] = b[j]
        /\ CatalogIndex(a[i]) < CatalogIndex(b[i])

\* C10: every length-N sequence over the catalog is generated exactly once,
\* nothing else is generated, and the sequences come in lexicographic order.
C10_ExhaustiveOrdered ==
    pc = "best" =>
        /\ \A q \in [1..NStages -> Range(catalog)] :
              Cardinality({ c \in 1..Len(combinations) :
                              combinations[c] = q }) = 1
        /\ \A c \in 1..Len(combinations) :
              /\ Len(combinations[c]) = NStages
              /\ \A i \in 1..NStages : combinations[c][i] \in Range(catalog)
        /\ \A c, d \in 1..Len(combinations) :
              c < d => LexLess(combinations[c], combinations[d])

C10_Witness ==
    /\ pc = "best"
    /\ NStages = 2
    /\ Len(catalog) = 2
    /\ combinations = << << catalog[1], catalog[1] >>,
                         << catalog[1], catalog[2] >>,
                         << catalog[2], catalog[1] >>,
                         << catalog[2], catalog[2] >> >>

=============================================================================
